---- MODULE Spec2Model ----
(***************************************************************************)
(* SilentCoderHub blog: the offline post indexer (generate-posts-index.js) *)
(* and the front-end loader (script of index.html, src/unnamed/part_000).  *)
(*                                                                         *)
(* Representation.  A JavaScript string is a TLA+ string, read character   *)
(* by character with Len, SubSeq and \o.  null and undefined are two       *)
(* reserved strings that no document holds.  A parsed document is the      *)
(* sequence of its nodes in document order; a selector list is a set of    *)
(* simple selectors and querySelector returns the first node, in document  *)
(* order, that matches one of them.  The clock counts hours since          *)
(* 1970-01-01T00:00Z.                                                      *)
(***************************************************************************)
EXTENDS Integers, Sequences, FiniteSets, TLC

VARIABLES
    files,        \* posts directory: file name -> document, unreadable or absent
    artifact,     \* posts/posts.json as stored on disk
    now,          \* wall clock read by new Date()
    console,      \* last console line of generatePostsIndex
    indexData,    \* indexData of the latest indexing pass
    prevIndex,    \* indexData of the pass before it
    indexerPc,    \* position of the indexer process
    sortOrder,    \* order the engine's sort leaves an array in when the
                  \* comparator is not consistent (implementation-defined)
    loaderPc,     \* position of initializeBlog / loadAllPosts
    discovering,  \* discoverPosts: index of the next known slug, posts so
                  \* far, slugs whose load was logged as an error
    response,     \* what fetch('./posts/posts.json') returned to the page
    allPosts,     \* global allPosts of the page
    log,          \* last console.log line of loadAllPosts
    watch,        \* --watch: position of main, pending setTimeout callbacks,
                  \* change events seen, passes the callbacks started
    built,        \* one document handed to both builders, and their results
    ui            \* the page: search box, displayedPosts, currentPage,
                  \* isLoading, pending timers, inline display styles

vars == <<files, artifact, now, console, indexData, prevIndex, indexerPc,
          sortOrder, loaderPc, discovering, response, allPosts, log,
          watch, built, ui>>

---------------------------------------------------------------------------
(* Bounds of the model *)

\* hours the clock may advance
MaxClock == 1
\* write(2) calls one fs.writeFileSync may need
MaxWrites == 2
\* change events of one burst
MaxEvents == 2
\* posts of the largest posts.json the page loads
ArchiveSize == 11
\* load-more timers that may be pending at once
MaxTimers == 2

---------------------------------------------------------------------------
(* JavaScript strings *)

NullV == "#null#"
UndefinedV == "#undefined#"

Ch(s, i) == SubSeq(s, i, i)

\* /\s/
IsSpace(c) == c \in {" ", "\n", "\t"}

\* /\d/
IsDigit(c) == c \in {"0", "1", "2", "3", "4", "5", "6", "7", "8", "9"}

Min(S) == CHOOSE x \in S : \A y \in S : x <= y
Max(a, b) == IF a >= b THEN a ELSE b

RECURSIVE TrimStart(_)
TrimStart(s) ==
    IF Len(s) > 0 /\ IsSpace(Ch(s, 1))
    THEN TrimStart(SubSeq(s, 2, Len(s)))
    ELSE s

RECURSIVE TrimEnd(_)
TrimEnd(s) ==
    IF Len(s) > 0 /\ IsSpace(Ch(s, Len(s)))
    THEN TrimEnd(SubSeq(s, 1, Len(s) - 1))
    ELSE s

\* String.prototype.trim
Trim(s) == TrimEnd(TrimStart(s))

\* String.prototype.indexOf(c) + 1 for a one-character c; 0 when absent
FirstIndex(s, c) ==
    LET hits == {i \in 1..Len(s) : Ch(s, i) = c}
    IN  IF hits = {} THEN 0 ELSE Min(hits)

\* index of the first whitespace character; 0 when there is none
FirstSpace(s) ==
    LET hits == {i \in 1..Len(s) : IsSpace(Ch(s, i))}
    IN  IF hits = {} THEN 0 ELSE Min(hits)

\* index of the last whitespace character; 0 when there is none
LastSpace(s) ==
    LET hits == {i \in 1..Len(s) : IsSpace(Ch(s, i))}
    IN  IF hits = {} THEN 0 ELSE CHOOSE i \in hits : \A j \in hits : j <= i

\* String.prototype.split(c) for a one-character separator
RECURSIVE Split(_, _)
Split(s, c) ==
    LET i == FirstIndex(s, c)
    IN  IF i = 0
        THEN <<s>>
        ELSE <<SubSeq(s, 1, i - 1)>> \o Split(SubSeq(s, i + 1, Len(s)), c)

\* String.prototype.split(/\s+/): the maximal runs of non-whitespace in
\* order, with an empty string in front when the text is empty or starts
\* with whitespace and one behind when it ends with whitespace
SplitWs(s) ==
    LET n == Len(s)
        starts == {i \in 1..n : /\ ~IsSpace(Ch(s, i))
                                /\ (i = 1 \/ IsSpace(Ch(s, i - 1)))}
        rank == [i \in starts |-> Cardinality({j \in starts : j <= i})]
        EndOf(i) == Min({j \in i..n : j = n \/ IsSpace(Ch(s, j + 1))})
        Nth(k) == CHOOSE i \in starts : rank[i] = k
        words == [k \in 1..Cardinality(starts) |->
                     SubSeq(s, Nth(k), EndOf(Nth(k)))]
        front == IF n = 0 \/ IsSpace(Ch(s, 1)) THEN <<"">> ELSE <<>>
        back == IF n > 0 /\ IsSpace(Ch(s, n)) THEN <<"">> ELSE <<>>
    IN  front \o words \o back

NonEmpty(s) == Len(s) > 0

\* String.prototype.toLowerCase, over the letters the model's texts use
LowerCh(c) ==
    LET i == FirstIndex("ABCDEFGHIJKLMNOPQRSTUVWXYZ", c)
    IN  IF i = 0 THEN c ELSE Ch("abcdefghijklmnopqrstuvwxyz", i)

RECURSIVE ToLowerCase(_)
ToLowerCase(s) ==
    IF Len(s) = 0 THEN ""
    ELSE IF Len(s) = 1 THEN LowerCh(s)
    ELSE LET half == Len(s) \div 2
         IN  ToLowerCase(SubSeq(s, 1, half))
                 \o ToLowerCase(SubSeq(s, half + 1, Len(s)))

\* String.prototype.includes
StringIncludes(s, t) ==
    \E i \in 0..(Len(s) - Len(t)) : SubSeq(s, i + 1, i + Len(t)) = t

\* String.prototype.replace(/\d+$/, '')
RECURSIVE RemoveTrailingDigits(_)
RemoveTrailingDigits(s) ==
    IF Len(s) > 0 /\ IsDigit(Ch(s, Len(s)))
    THEN RemoveTrailingDigits(SubSeq(s, 1, Len(s) - 1))
    ELSE s

\* Array.prototype.includes
Includes(arr, x) == \E i \in 1..Len(arr) : arr[i] = x

\* String.prototype.replace(/.*\s/, ''): the dot matches no line break, so
\* the greedy match is the first line with the line break that ends it, or,
\* in a text of one line, everything through its last whitespace
ReplaceThroughSpace(s) ==
    LET nl == FirstIndex(s, "\n")
        sp == LastSpace(s)
    IN  IF nl # 0 THEN SubSeq(s, nl + 1, Len(s))
        ELSE IF sp # 0 THEN SubSeq(s, sp + 1, Len(s))
        ELSE s

\* The UTF-16 code units of the characters the model's names use, ascending
CodeUnits ==
    " #-.0123456789:ABCDEFGHIJKLMNOPQRSTUVWXYZabcdefghijklmnopqrstuvwxyz"

CodeUnit(c) == FirstIndex(CodeUnits, c)

\* x < y in the order of Array.prototype.sort without a comparator
RECURSIVE StringLess(_, _)
StringLess(x, y) ==
    IF Len(y) = 0 THEN FALSE
    ELSE IF Len(x) = 0 THEN TRUE
    ELSE IF Ch(x, 1) = Ch(y, 1)
         THEN StringLess(SubSeq(x, 2, Len(x)), SubSeq(y, 2, Len(y)))
         ELSE CodeUnit(Ch(x, 1)) < CodeUnit(Ch(y, 1))

\* String(v) as the default sort applies it to an element
JsToString(v) == IF v = NullV THEN "null" ELSE v

\* One insertion of the default sort: x goes before the first element that
\* is greater than it
RECURSIVE InsertByString(_, _)
InsertByString(sorted, x) ==
    IF sorted = <<>> THEN <<x>>
    ELSE IF StringLess(JsToString(x), JsToString(Head(sorted)))
         THEN <<x>> \o sorted
         ELSE <<Head(sorted)>> \o InsertByString(Tail(sorted), x)

\* Array.prototype.sort() without a comparator (stable, by code units)
RECURSIVE SortStrings(_)
SortStrings(arr) ==
    IF arr = <<>> THEN <<>>
    ELSE InsertByString(SortStrings(SubSeq(arr, 1, Len(arr) - 1)),
                        arr[Len(arr)])

---------------------------------------------------------------------------
(* Parsed documents *)

Node(tag, class, name, property, content, text) ==
    [tag |-> tag, class |-> class, name |-> name, property |-> property,
     content |-> content, text |-> text]

\* <meta name=... content=...>; content is NullV when the attribute is missing
Meta(name, content) == Node("meta", {}, name, "", content, "")
MetaProperty(property, content) == Node("meta", {}, "", property, content, "")
El(tag, class, text) == Node(tag, class, "", "", NullV, text)
\* the line break between two elements of the source
Ws == Node("#text", {}, "", "", NullV, "\n")

\* A simple selector: tag, class, meta name and meta property, "" for any
Sel(tag, class, name, property) ==
    [tag |-> tag, class |-> class, name |-> name, property |-> property]
SelTag(tag) == Sel(tag, "", "", "")
SelClass(class) == Sel("", class, "", "")
SelMetaName(name) == Sel("meta", "", name, "")
SelMetaProperty(property) == Sel("meta", "", "", property)

\* Element.matches for a selector list (a set of simple selectors)
Matches(n, selectors) ==
    \E s \in selectors :
        /\ s.tag = "" \/ n.tag = s.tag
        /\ s.class = "" \/ s.class \in n.class
        /\ s.name = "" \/ n.name = s.name
        /\ s.property = "" \/ n.property = s.property

\* Document.querySelector: index of the first node in document order that
\* matches the selector list, 0 for null
QuerySelector(doc, selectors) ==
    LET hits == {i \in 1..Len(doc) : Matches(doc[i], selectors)}
    IN  IF hits = {} THEN 0 ELSE Min(hits)

\* Document.querySelectorAll: the matching nodes in document order
RECURSIVE QuerySelectorAll(_, _)
QuerySelectorAll(doc, selectors) ==
    IF doc = <<>> THEN <<>>
    ELSE (IF Matches(Head(doc), selectors) THEN <<Head(doc)>> ELSE <<>>)
         \o QuerySelectorAll(Tail(doc), selectors)

InBody(n) == n.tag \notin {"meta", "title"}

\* document.body.textContent: the text of the body's nodes, concatenated
RECURSIVE BodyText(_)
BodyText(doc) ==
    IF doc = <<>> THEN ""
    ELSE (IF InBody(Head(doc)) THEN Head(doc).text ELSE "")
         \o BodyText(Tail(doc))

---------------------------------------------------------------------------
(* The documents of the posts directory.  Each is the parse of the HTML    *)
(* quoted above it.                                                        *)

\* <title>Computer Basics</title>
\* <meta name="description" content="What defines a computer">
\* <meta name="date" content="2025-09-23">
\* <meta name="category" content="Basics">
\* <meta name="keywords" content="Hardware, Basics">
\* <meta name="author" content="Sridhar">
\* <h1 class="post-title">What is a Computer</h1>
\* <p>A computer computes</p>
DocComputer ==
    << El("title", {}, "Computer Basics"),
       Meta("description", "What defines a computer"),
       Meta("date", "2025-09-23"),
       Meta("category", "Basics"),
       Meta("keywords", "Hardware, Basics"),
       Meta("author", "Sridhar"),
       Ws,
       El("h1", {"post-title"}, "What is a Computer"),
       Ws,
       El("p", {}, "A computer computes"),
       Ws >>

\* <title>Web Development</title>
\* <meta property="article:published_time" content="2025-09-20T10:00:00.000Z">
\* <meta name="category" content="Web">
\* <meta name="keywords" content=" Hardware ,CSS,Hardware">
\* <p>Learn HTML</p>
DocWeb ==
    << El("title", {}, "Web Development"),
       MetaProperty("article:published_time", "2025-09-20T10:00:00.000Z"),
       Meta("category", "Web"),
       Meta("keywords", " Hardware ,CSS,Hardware"),
       Ws,
       El("p", {}, "Learn HTML"),
       Ws >>

\* <title> Closures </title>
\* <meta name="date" content="2025-09-18">
\* <a class="post-category"><i class="fas fa-folder"></i> basics</a>
\* <p>Closures capture scope</p>
\* <a class="tag">JavaScript</a>
\* <a class="post-tag"> Functions </a>
DocClosures ==
    << El("title", {}, " Closures "),
       Meta("date", "2025-09-18"),
       Ws,
       El("a", {"post-category"}, " basics"),
       Ws,
       El("p", {}, "Closures capture scope"),
       Ws,
       El("a", {"tag"}, "JavaScript"),
       Ws,
       El("a", {"post-tag"}, " Functions "),
       Ws >>

\* <div>hello world</div>
DocBare ==
    << Ws, El("div", {}, "hello world"), Ws >>

\* <meta name="keywords">
\* <h1>Notes</h1>
DocNoContent ==
    << Meta("keywords", NullV),
       Ws,
       El("h1", {}, "Notes"),
       Ws >>

\* <meta name="date" content="">
\* <meta name="category">
\* <meta name="author">
\* <meta name="keywords" content="CSS">
\* <h1>Draft</h1>
\* <p>todo</p>
DocDraft ==
    << Meta("date", ""),
       Meta("category", NullV),
       Meta("author", NullV),
       Meta("keywords", "CSS"),
       Ws,
       El("h1", {}, "Draft"),
       Ws,
       El("p", {}, "todo"),
       Ws >>

\* <meta name="keywords" content=" , ">
\* <div class="post-title">Untagged</div>
\* <p>text</p>
DocBlankKeywords ==
    << Meta("keywords", " , "),
       Ws,
       El("div", {"post-title"}, "Untagged"),
       Ws,
       El("p", {}, "text"),
       Ws >>

\* s written n times
RECURSIVE Repeat(_, _)
Repeat(s, n) ==
    IF n = 0 THEN ""
    ELSE IF n % 2 = 1 THEN s \o Repeat(s, n - 1)
    ELSE LET half == Repeat(s, n \div 2) IN half \o half

\* <h1>Long</h1>
\* <p>word word ... word</p>, 199 words with the heading's 200
DocLong ==
    << Ws,
       El("h1", {}, "Long"),
       Ws,
       El("p", {}, Repeat("word ", 198) \o "word"),
       Ws >>

DocIds ==
    {"computer", "web", "closures", "bare", "nocontent", "draft",
     "blankKeywords", "long"}

DocOf(id) ==
    CASE id = "computer" -> DocComputer
      [] id = "web" -> DocWeb
      [] id = "closures" -> DocClosures
      [] id = "bare" -> DocBare
      [] id = "nocontent" -> DocNoContent
      [] id = "draft" -> DocDraft
      [] id = "blankKeywords" -> DocBlankKeywords
      [] id = "long" -> DocLong

\* The names the posts directory may hold
FileNames ==
    {"what-exactly-is-a-computer.html", "css-grid.html",
     "my-topic-2025-09-24.html"}

\* The states of one directory entry
FileStates == {"absent", "unreadable"} \cup DocIds

\* The contents each entry is tried with
Contents(file) ==
    CASE file = "what-exactly-is-a-computer.html" ->
             {"absent", "unreadable", "computer", "nocontent"}
      [] file = "css-grid.html" ->
             {"absent", "unreadable", "web", "draft", "bare"}
      [] file = "my-topic-2025-09-24.html" ->
             {"absent", "closures", "computer", "bare"}

Directories ==
    {dir \in [FileNames -> FileStates] :
        \A file \in FileNames : dir[file] \in Contents(file)}

---------------------------------------------------------------------------
(* Dates and the clock *)

DigitValue(c) == FirstIndex("0123456789", c) - 1

AllDigits(s) == \A i \in 1..Len(s) : IsDigit(Ch(s, i))

RECURSIVE ParseDigits(_)
ParseDigits(s) ==
    IF Len(s) = 0 THEN 0
    ELSE 10 * ParseDigits(SubSeq(s, 1, Len(s) - 1)) + DigitValue(Ch(s, Len(s)))

Pad2(n) == IF n < 10 THEN "0" \o ToString(n) ELSE ToString(n)

\* Days from 1970-01-01 to the civil date y-m-d (proleptic Gregorian)
DaysFromCivil(y, m, d) ==
    LET yy == IF m <= 2 THEN y - 1 ELSE y
        era == yy \div 400
        yoe == yy - era * 400
        mp == IF m > 2 THEN m - 3 ELSE m + 9
        doy == (153 * mp + 2) \div 5 + d - 1
        doe == yoe * 365 + yoe \div 4 - yoe \div 100 + doy
    IN  era * 146097 + doe - 719468

\* The civil date <<y, m, d>> of a day number
CivilFromDays(z) ==
    LET zz == z + 719468
        era == zz \div 146097
        doe == zz - era * 146097
        yoe == (doe - doe \div 1460 + doe \div 36524 - doe \div 146096) \div 365
        doy == doe - (365 * yoe + yoe \div 4 - yoe \div 100)
        mp == (5 * doy + 2) \div 153
        d == doy - (153 * mp + 2) \div 5 + 1
        m == IF mp < 10 THEN mp + 3 ELSE mp - 9
        y == yoe + era * 400
    IN  <<IF m <= 2 THEN y + 1 ELSE y, m, d>>

\* new Date().toISOString() at a clock reading (whole hours)
ToISOString(clock) ==
    LET ymd == CivilFromDays(clock \div 24)
    IN  ToString(ymd[1]) \o "-" \o Pad2(ymd[2]) \o "-" \o Pad2(ymd[3]) \o "T"
        \o Pad2(clock % 24) \o ":00:00.000Z"

\* /^\d{4}-\d{2}-\d{2}$/
IsDateShape(s) ==
    /\ Len(s) = 10
    /\ AllDigits(SubSeq(s, 1, 4)) /\ Ch(s, 5) = "-"
    /\ AllDigits(SubSeq(s, 6, 7)) /\ Ch(s, 8) = "-"
    /\ AllDigits(SubSeq(s, 9, 10))

IsCalendarDate(s) ==
    /\ IsDateShape(s)
    /\ ParseDigits(SubSeq(s, 6, 7)) \in 1..12
    /\ ParseDigits(SubSeq(s, 9, 10)) \in 1..31

\* THH:mm:ss.sssZ
IsTimeShape(s) ==
    /\ Len(s) = 14
    /\ Ch(s, 1) = "T" /\ AllDigits(SubSeq(s, 2, 3)) /\ Ch(s, 4) = ":"
    /\ AllDigits(SubSeq(s, 5, 6)) /\ Ch(s, 7) = ":"
    /\ AllDigits(SubSeq(s, 8, 9)) /\ Ch(s, 10) = "."
    /\ AllDigits(SubSeq(s, 11, 13)) /\ Ch(s, 14) = "Z"
    /\ ParseDigits(SubSeq(s, 2, 3)) \in 0..23

\* new Date(v) is a valid date.  Of the values the model holds: null is
\* the epoch, an ISO date and an ISO date-time in UTC are valid, and the
\* texts that hold no date ("" here) are Invalid Date
DateIsValid(v) ==
    \/ v = NullV
    \/ IsCalendarDate(v)
    \/ Len(v) = 24 /\ IsCalendarDate(SubSeq(v, 1, 10))
                   /\ IsTimeShape(SubSeq(v, 11, 24))

\* new Date(v).getTime() of a valid date, in hours
DateValue(v) ==
    IF v = NullV THEN 0
    ELSE LET days == DaysFromCivil(ParseDigits(SubSeq(v, 1, 4)),
                                   ParseDigits(SubSeq(v, 6, 7)),
                                   ParseDigits(SubSeq(v, 9, 10)))
         IN  IF Len(v) = 10 THEN days * 24
             ELSE days * 24 + ParseDigits(SubSeq(v, 12, 13))

\* slug.match(/(\d{4}-\d{2}-\d{2})/): index of the leftmost match, 0 for null
SlugDateMatch(slug) ==
    LET hits == {i \in 1..Len(slug) :
                    i + 9 <= Len(slug) /\ IsDateShape(SubSeq(slug, i, i + 9))}
    IN  IF hits = {} THEN 0 ELSE Min(hits)

\* The clock reading of the initial state: 2025-09-25T23:00Z
ClockStart == DaysFromCivil(2025, 9, 25) * 24 + 23
Clocks == ClockStart..(ClockStart + MaxClock)

---------------------------------------------------------------------------
(* generate-posts-index.js: extractMetadata *)

CONFIG ==
    [author |-> "SilentCoderHub",
     wordsPerMinute |-> 200,
     defaultCategory |-> "General",
     defaultTags |-> <<"Blog">>]

ExcerptLimit == 200

\* Math.ceil(a / b) for a >= 0, b > 0
CeilDiv(a, b) == (a + b - 1) \div b

\* file.endsWith('.html')
EndsWithHtml(filename) ==
    Len(filename) >= 5 /\ SubSeq(filename, Len(filename) - 4, Len(filename)) = ".html"

\* path.basename(filename, '.html')
Basename(filename) ==
    IF EndsWithHtml(filename) /\ Len(filename) > 5
    THEN SubSeq(filename, 1, Len(filename) - 5)
    ELSE filename

\* content.split(/\s+/).filter(word => word.length > 0).length
WordCount(content) == Len(SelectSeq(SplitWs(content), NonEmpty))

\* tag => tag.trim() mapped over an array of strings
TrimAll(arr) == [i \in 1..Len(arr) |-> Trim(arr[i])]

\* el => el.textContent.trim() mapped over a node list
TextsOf(nodes) == [i \in 1..Len(nodes) |-> Trim(nodes[i].text)]

\* extractMetadata raises a TypeError: getAttribute('content') is null on
\* a meta tag without the attribute, and the code calls .split on it
ExtractMetadataThrows(doc) ==
    LET metaDate == QuerySelector(doc, {SelMetaName("date"),
                        SelMetaProperty("article:published_time")})
        metaKeywords == QuerySelector(doc, {SelMetaName("keywords")})
    IN  \/ metaDate # 0 /\ doc[metaDate].content = NullV
        \/ metaKeywords # 0 /\ doc[metaKeywords].content = NullV

\* the record extractMetadata returns when it does not throw
ExtractMetadata(doc, filename, clock) ==
    LET slug == Basename(filename)
        titleEl == QuerySelector(doc, {SelTag("h1"),
                       SelClass("post-title-main"), SelTag("title")})
        title == IF titleEl # 0 THEN Trim(doc[titleEl].text)
                 ELSE "Untitled Post"
        metaDesc == QuerySelector(doc, {SelMetaName("description")})
        \* '.post-content p, p' selects the first p either way
        firstP == QuerySelector(doc, {SelTag("p")})
        pText == Trim(doc[firstP].text)
        excerpt ==
            IF metaDesc # 0 THEN doc[metaDesc].content
            ELSE IF firstP # 0
                 THEN IF Len(pText) > ExcerptLimit
                      THEN SubSeq(pText, 1, ExcerptLimit) \o "..."
                      ELSE pText
                 ELSE ""
        metaDate == QuerySelector(doc, {SelMetaName("date"),
                        SelMetaProperty("article:published_time")})
        dateMatch == SlugDateMatch(slug)
        date ==
            IF metaDate # 0 THEN Head(Split(doc[metaDate].content, "T"))
            ELSE IF dateMatch # 0 THEN SubSeq(slug, dateMatch, dateMatch + 9)
            ELSE Head(Split(ToISOString(clock), "T"))
        metaCat == QuerySelector(doc, {SelMetaName("category")})
        catEl == QuerySelector(doc, {SelClass("post-category")})
        category ==
            IF metaCat # 0 THEN doc[metaCat].content
            ELSE IF catEl # 0
                 THEN Trim(ReplaceThroughSpace(doc[catEl].text))
                 ELSE CONFIG.defaultCategory
        metaKeywords == QuerySelector(doc, {SelMetaName("keywords")})
        tagElements == QuerySelectorAll(doc, {SelClass("tag"),
                           SelClass("post-tag")})
        tags ==
            IF metaKeywords # 0
            THEN SelectSeq(TrimAll(Split(doc[metaKeywords].content, ",")),
                           NonEmpty)
            ELSE IF Len(tagElements) > 0 THEN TextsOf(tagElements)
            ELSE CONFIG.defaultTags
        content == BodyText(doc)
        wordCount == WordCount(content)
        readTime == Max(1, CeilDiv(wordCount, CONFIG.wordsPerMinute))
        metaAuthor == QuerySelector(doc, {SelMetaName("author")})
        author == IF metaAuthor # 0 THEN doc[metaAuthor].content
                  ELSE CONFIG.author
    IN  [id |-> "post-" \o slug,
         title |-> title,
         excerpt |-> IF excerpt = NullV \/ excerpt = ""
                     THEN "No excerpt available."
                     ELSE excerpt,
         date |-> date,
         category |-> category,
         tags |-> tags,
         author |-> author,
         readTime |-> ToString(readTime) \o " min read",
         slug |-> slug,
         wordCount |-> wordCount,
         lastModified |-> ToISOString(clock)]

---------------------------------------------------------------------------
(* generate-posts-index.js: generatePostsIndex *)

\* JavaScript numbers that may be NaN
Num(n) == [kind |-> "number", n |-> n]
NaN == [kind |-> "NaN", n |-> 0]
NumAdd(x, y) ==
    IF x.kind = "NaN" \/ y.kind = "NaN" THEN NaN ELSE Num(x.n + y.n)

\* parseInt(s): the leading digits of s, NaN when there is none
RECURSIVE LeadingDigits(_)
LeadingDigits(s) ==
    IF Len(s) > 0 /\ IsDigit(Ch(s, 1))
    THEN Ch(s, 1) \o LeadingDigits(SubSeq(s, 2, Len(s)))
    ELSE ""
ParseInt(s) ==
    IF LeadingDigits(s) = "" THEN NaN ELSE Num(ParseDigits(LeadingDigits(s)))

\* Math.round(x / len) for x >= 0: 0 / 0 is NaN
RoundDiv(x, len) ==
    IF x.kind = "NaN" \/ len = 0 THEN NaN
    ELSE Num((2 * x.n + len) \div (2 * len))

RECURSIVE SetToSeq(_)
SetToSeq(S) ==
    IF S = {} THEN <<>>
    ELSE LET x == CHOOSE y \in S : TRUE IN <<x>> \o SetToSeq(S \ {x})

\* Set.prototype.add on a Set kept in insertion order
SetAdd(set, x) == IF Includes(set, x) THEN set ELSE Append(set, x)

RECURSIVE SetAddAll(_, _)
SetAddAll(set, arr) ==
    IF arr = <<>> THEN set ELSE SetAddAll(SetAdd(set, Head(arr)), Tail(arr))

\* fs.readdirSync(POSTS_DIR): the entries of the directory, posts.json
\* among them once it exists
ReadDir(dir, json) ==
    SetToSeq({f \in DOMAIN dir : dir[f] # "absent"}
             \cup (IF json.exists THEN {"posts.json"} ELSE {}))

\* A faulty loop with the try/catch around the whole loop: the first file
\* that fails ends it
RECURSIVE ProcessFilesAbort(_, _, _)
ProcessFilesAbort(names, dir, clock) ==
    IF names = <<>> \/ dir[Head(names)] = "unreadable"
       \/ ExtractMetadataThrows(DocOf(dir[Head(names)]))
    THEN [posts |-> <<>>, categories |-> <<>>, tags |-> <<>>]
    ELSE LET metadata == ExtractMetadata(DocOf(dir[Head(names)]),
                                         Head(names), clock)
             rest == ProcessFilesAbort(Tail(names), dir, clock)
         IN  [posts |-> <<metadata>> \o rest.posts,
              categories |-> SetAddAll(<<metadata.category>>, rest.categories),
              tags |-> SetAddAll(metadata.tags, rest.tags)]

\* The per-file loop: posts, categories and tags after the files of `names`;
\* a file whose read or whose extractMetadata throws is logged and skipped
\* extractMetadata tabulated over the documents, names and clock readings of
\* the model
Extracted ==
    [id \in DocIds, file \in FileNames, clock \in Clocks |->
        IF ExtractMetadataThrows(DocOf(id)) THEN [throws |-> TRUE]
        ELSE [throws |-> FALSE,
              metadata |-> ExtractMetadata(DocOf(id), file, clock)]]

RECURSIVE ProcessFiles(_, _, _)
ProcessFiles(names, dir, clock) ==
    IF names = <<>>
    THEN [posts |-> <<>>, categories |-> <<>>, tags |-> <<>>]
    ELSE LET acc == ProcessFiles(SubSeq(names, 1, Len(names) - 1), dir, clock)
             file == names[Len(names)]
         IN  IF dir[file] = "unreadable" \/ Extracted[dir[file], file, clock].throws
             THEN acc
             ELSE LET metadata == Extracted[dir[file], file, clock].metadata
                  IN  [posts |-> Append(acc.posts, metadata),
                       categories |-> SetAdd(acc.categories, metadata.category),
                       tags |-> SetAddAll(acc.tags, metadata.tags)]

\* (a, b) => new Date(b.date) - new Date(a.date); defined when both dates
\* are valid, NaN otherwise
CompareByDate(a, b) == DateValue(b.date) - DateValue(a.date)

\* The comparator is a consistent comparison function for the array: it
\* never returns NaN
ComparatorConsistent(posts) ==
    \A i \in 1..Len(posts) : DateIsValid(posts[i].date)

\* One insertion of a stable sort: x goes before the first element the
\* comparator puts after it
RECURSIVE InsertByDate(_, _)
InsertByDate(sorted, x) ==
    IF sorted = <<>> THEN <<x>>
    ELSE IF CompareByDate(x, Head(sorted)) < 0
         THEN <<x>> \o sorted
         ELSE <<Head(sorted)>> \o InsertByDate(Tail(sorted), x)

\* posts.sort(comparator) with a consistent comparator: the stable sort
RECURSIVE SortByDate(_)
SortByDate(posts) ==
    IF posts = <<>> THEN <<>>
    ELSE InsertByDate(SortByDate(SubSeq(posts, 1, Len(posts) - 1)),
                      posts[Len(posts)])

IndexPermutations(n) ==
    {p \in [1..n -> 1..n] : \A i, j \in 1..n : p[i] = p[j] => i = j}

\* The orders posts.sort may leave: the stable sort, or, when the
\* comparator returns NaN, an implementation-defined order
SortChoices(posts, known) ==
    IF ComparatorConsistent(posts) THEN {known}
    ELSE IF Len(known) = Len(posts) /\ Len(posts) > 0 THEN {known}
    ELSE IndexPermutations(Len(posts))

SortResult(posts, perm) ==
    IF ComparatorConsistent(posts) THEN SortByDate(posts)
    ELSE [i \in 1..Len(posts) |-> posts[perm[i]]]

RECURSIVE CountPosts(_, _, _)
\* posts.filter(p => p.category === cat).length for field = "category",
\* posts.filter(p => p.tags.includes(tag)).length for field = "tags"
CountPosts(posts, field, name) ==
    IF posts = <<>> THEN 0
    ELSE (IF \/ field = "category" /\ Head(posts).category = name
             \/ field = "tags" /\ Includes(Head(posts).tags, name)
          THEN 1 ELSE 0) + CountPosts(Tail(posts), field, name)

RECURSIVE TotalWords(_)
\* posts.reduce((sum, post) => sum + (post.wordCount || 0), 0)
TotalWords(posts) ==
    IF posts = <<>> THEN 0
    ELSE TotalWords(SubSeq(posts, 1, Len(posts) - 1)) + posts[Len(posts)].wordCount

RECURSIVE TotalMinutes(_)
\* posts.reduce((sum, post) => sum + parseInt(post.readTime), 0)
TotalMinutes(posts) ==
    IF posts = <<>> THEN Num(0)
    ELSE NumAdd(TotalMinutes(SubSeq(posts, 1, Len(posts) - 1)),
                ParseInt(posts[Len(posts)].readTime))

\* the indexData object built from the sorted posts
BuildIndexData(posts, categories, tags, clock) ==
    LET cats == SortStrings(categories)
        tgs == SortStrings(tags)
    IN  [generated |-> ToISOString(clock),
         totalPosts |-> Len(posts),
         posts |-> posts,
         categories |-> [i \in 1..Len(cats) |->
             [name |-> cats[i],
              count |-> CountPosts(posts, "category", cats[i]),
              description |-> "Posts about " \o JsToString(cats[i])]],
         tags |-> [i \in 1..Len(tgs) |->
             [name |-> tgs[i],
              count |-> CountPosts(posts, "tags", tgs[i])]],
         stats |->
             [totalWords |-> TotalWords(posts),
              averageReadTime |-> RoundDiv(TotalMinutes(posts), Len(posts)),
              latestPost |-> IF Len(posts) > 0 THEN posts[1].date
                             ELSE UndefinedV,
              oldestPost |-> IF Len(posts) > 0 THEN posts[Len(posts)].date
                             ELSE UndefinedV]]

\* the JSON value null where a number is expected
JsonNull == [kind |-> "null", n |-> 0]

\* JSON.stringify(indexData) as the document it denotes: NaN is written as
\* null; a property whose value is undefined is left out, which reads back
\* as undefined
JsonStringify(data) ==
    [data EXCEPT !.stats.averageReadTime =
        IF @.kind = "NaN" THEN JsonNull ELSE @]

\* posts.json: whether it exists, the JSON document whose text is being
\* stored, and how many of the write calls that store it have completed.
\* The text on disk parses iff all of it is there.
File(doc, written, total) ==
    [exists |-> TRUE, doc |-> doc, written |-> written, total |-> total]
NoFile == [exists |-> FALSE, doc |-> [totalPosts |-> 0], written |-> 0, total |-> 0]

NoIndex == [generated |-> UndefinedV]

\* The .html files of the directory, sorted
HtmlFiles == SortStrings(SelectSeq(ReadDir(files, artifact), EndsWithHtml))

\* generatePostsIndex when the directory holds no .html file: it logs and
\* returns
PassNoFiles ==
    /\ indexerPc = "idle"
    /\ Len(HtmlFiles) = 0
    /\ console' = "No HTML files found in posts directory"
    /\ UNCHANGED <<files, artifact, now, indexData, prevIndex, indexerPc,
                   sortOrder, loaderPc, discovering, response, allPosts, log>>
    /\ UNCHANGED <<built, ui>>

\* generatePostsIndex() run from the command line, no .html file
GenerateNoFiles == PassNoFiles /\ UNCHANGED watch

\* generatePostsIndex up to the open of fs.writeFileSync, which truncates
\* posts.json (flag 'w'); the data then goes out in `total` write calls
PassIndex ==
    /\ indexerPc = "idle"
    /\ Len(HtmlFiles) > 0
    /\ LET acc == ProcessFiles(HtmlFiles, files, now)
       IN  \E perm \in SortChoices(acc.posts, sortOrder) :
           \E total \in 1..MaxWrites :
             LET posts == SortResult(acc.posts, perm)
                 data == BuildIndexData(posts, acc.categories, acc.tags, now)
             IN  /\ indexData' = data
                 /\ prevIndex' = indexData
                 /\ sortOrder' = perm
                 /\ artifact' = File(JsonStringify(data), 0, total)
    /\ indexerPc' = "writing"
    /\ console' = "Found " \o ToString(Len(HtmlFiles)) \o " post files"
    /\ UNCHANGED <<files, now, loaderPc, discovering, response, allPosts, log>>
    /\ UNCHANGED <<built, ui>>

\* generatePostsIndex() run from the command line
GeneratePostsIndex == PassIndex /\ UNCHANGED watch

\* one write call of fs.writeFileSync; the call returns after the last
WriteFileSync ==
    /\ indexerPc = "writing"
    /\ artifact' = [artifact EXCEPT !.written = @ + 1]
    /\ IF artifact.written + 1 = artifact.total
       THEN /\ indexerPc' = "idle"
            /\ console' = "Successfully generated posts index!"
       ELSE UNCHANGED <<indexerPc, console>>
    /\ UNCHANGED <<files, now, indexData, prevIndex, sortOrder,
                   loaderPc, discovering, response, allPosts, log>>
    /\ UNCHANGED <<watch, built, ui>>

---------------------------------------------------------------------------
(* generate-posts-index.js: main with --watch, watchPostsDirectory *)

\* main with --watch before its call of generatePostsIndex
WatchMain == [state |-> "initial", timers |-> 0, events |-> 0, passes |-> 0]

\* generatePostsIndex is due: main is about to call it, or a callback of
\* setTimeout(generatePostsIndex, 1000) is pending
PassDue ==
    \/ watch.state = "initial"
    \/ watch.state = "watching" /\ watch.timers > 0

\* the call is made: .then(watchPostsDirectory) now waits for main's call
\* to return, a timer's callback is spent and has started a pass
PassCalled ==
    IF watch.state = "initial" THEN [watch EXCEPT !.state = "called"]
    ELSE [watch EXCEPT !.timers = @ - 1, !.passes = @ + 1]

\* generatePostsIndex() called by main or by a timer, no .html file
WatchedNoFiles == PassDue /\ PassNoFiles /\ watch' = PassCalled

\* generatePostsIndex() called by main or by a timer
WatchedIndex == PassDue /\ PassIndex /\ watch' = PassCalled

\* watchPostsDirectory, run once the first pass has returned: fs.watch
WatchPostsDirectory ==
    /\ watch.state = "called"
    /\ indexerPc = "idle"
    /\ watch' = [watch EXCEPT !.state = "watching"]
    /\ UNCHANGED <<files, artifact, now, console, indexData, prevIndex,
                   indexerPc, sortOrder, loaderPc, discovering, response,
                   allPosts, log, built, ui>>

\* The names fs.watch may report: the posts, posts.json, or none (null)
WatchedNames == FileNames \cup {"posts.json", NullV}

\* The listener of fs.watch for one change of the directory.  The events
\* taken are those of one burst: they arrive before the timer the first of
\* them set has run out
ChangeEvent ==
    /\ watch.state = "watching"
    /\ indexerPc = "idle"
    /\ watch.passes = 0
    /\ watch.events < MaxEvents
    /\ \E filename \in WatchedNames :
        /\ IF filename # NullV /\ EndsWithHtml(filename)
           THEN watch' = [watch EXCEPT !.timers = @ + 1, !.events = @ + 1]
           ELSE UNCHANGED watch
        /\ IF filename \in FileNames
           THEN \E content \in Contents(filename) \cap {"absent", "computer"} :
                    files' = [files EXCEPT ![filename] = content]
           ELSE UNCHANGED files
    /\ UNCHANGED <<artifact, now, console, indexData, prevIndex, indexerPc,
                   sortOrder, loaderPc, discovering, response, allPosts, log,
                   built, ui>>

\* time passes
Tick ==
    /\ now < ClockStart + MaxClock
    /\ now' = now + 1
    /\ UNCHANGED <<files, artifact, console, indexData, prevIndex, indexerPc,
                   sortOrder, loaderPc, discovering, response, allPosts, log>>
    /\ UNCHANGED <<watch, built, ui>>

---------------------------------------------------------------------------
(* Front-end: the field extractors and parsePostHTML *)

BLOG_CONFIG ==
    [postsPerPage |-> 5, maxRecentPosts |-> 5, maxPopularTags |-> 10]

\* extractTitle
ExtractTitle(doc) ==
    LET h1 == QuerySelector(doc, {SelTag("h1")})
        title == QuerySelector(doc, {SelTag("title")})
        postTitle == QuerySelector(doc, {SelClass("post-title")})
        titleClass == QuerySelector(doc, {SelClass("title")})
        titleEl == IF h1 # 0 THEN h1
                   ELSE IF title # 0 THEN title
                   ELSE IF postTitle # 0 THEN postTitle
                   ELSE titleClass
    IN  IF titleEl # 0 THEN Trim(doc[titleEl].text) ELSE "Untitled Post"

\* extractExcerpt
ExtractExcerpt(doc) ==
    LET metaDesc == QuerySelector(doc, {SelMetaName("description")})
        firstP == QuerySelector(doc, {SelTag("p")})
        text == Trim(doc[firstP].text)
    IN  IF metaDesc # 0 THEN doc[metaDesc].content
        ELSE IF firstP # 0
             THEN IF Len(text) > ExcerptLimit
                  THEN SubSeq(text, 1, ExcerptLimit) \o "..."
                  ELSE text
             ELSE "No excerpt available."

\* extractDate
ExtractDate(doc, slug, clock) ==
    LET byName == QuerySelector(doc, {SelMetaName("date")})
        byProperty == QuerySelector(doc,
                          {SelMetaProperty("article:published_time")})
        metaDate == IF byName # 0 THEN byName ELSE byProperty
        dateMatch == SlugDateMatch(slug)
    IN  IF metaDate # 0 THEN doc[metaDate].content
        ELSE IF dateMatch # 0 THEN SubSeq(slug, dateMatch, dateMatch + 9)
        ELSE Head(Split(ToISOString(clock), "T"))

\* extractCategory
ExtractCategory(doc) ==
    LET metaCat == QuerySelector(doc, {SelMetaName("category")})
        byCategory == QuerySelector(doc, {SelClass("category")})
        byPostCategory == QuerySelector(doc, {SelClass("post-category")})
        catEl == IF byCategory # 0 THEN byCategory ELSE byPostCategory
    IN  IF metaCat # 0 THEN doc[metaCat].content
        ELSE IF catEl # 0 THEN Trim(doc[catEl].text)
        ELSE "General"

\* extractTags raises a TypeError: .split on the null content of a
\* keywords meta tag without the attribute
ExtractTagsThrows(doc) ==
    LET metaTags == QuerySelector(doc, {SelMetaName("keywords")})
    IN  metaTags # 0 /\ doc[metaTags].content = NullV

\* extractTags
ExtractTags(doc) ==
    LET metaTags == QuerySelector(doc, {SelMetaName("keywords")})
        tagElements == QuerySelectorAll(doc, {SelClass("tag"),
                           SelClass("post-tag")})
    IN  IF metaTags # 0 THEN TrimAll(Split(doc[metaTags].content, ","))
        ELSE IF Len(tagElements) > 0 THEN TextsOf(tagElements)
        ELSE <<"Blog">>

\* calculateReadTime
CalculateReadTime(text) ==
    LET wordsPerMinute == 200
        words == Len(SplitWs(text))
        minutes == CeilDiv(words, wordsPerMinute)
    IN  ToString(minutes) \o " min read"

\* parsePostHTML throws exactly when extractTags does
ParsePostHTMLThrows(html) == ExtractTagsThrows(DocOf(html))

\* parsePostHTML; html is the text of the file and DocOf its parse
ParsePostHTML(html, slug, clock) ==
    LET doc == DocOf(html)
    IN  [id |-> "post-" \o slug,
         title |-> ExtractTitle(doc),
         excerpt |-> ExtractExcerpt(doc),
         content |-> html,
         date |-> ExtractDate(doc, slug, clock),
         category |-> ExtractCategory(doc),
         tags |-> ExtractTags(doc),
         author |-> "SilentCoderHub",
         readTime |-> CalculateReadTime(BodyText(doc)),
         slug |-> slug]

\* getSamplePosts
GetSamplePosts ==
    << [id |-> "post-what-exactly-is-a-computer",
        title |-> "What Exactly is a Computer? Understanding the Essentials",
        excerpt |-> "Ever wondered what defines a computer? Let's dive into its core functions, key features, and its remarkable place in both work and life. From simple devices to powerful companions.",
        content |-> "",
        date |-> "2025-09-23",
        category |-> "Computer Basics",
        tags |-> <<"Computer Science", "Technology", "Hardware", "Basics">>,
        author |-> "SilentCoderHub",
        readTime |-> "6 min read",
        slug |-> "what-exactly-is-a-computer"],
       [id |-> "post-sample-2",
        title |-> "Getting Started with Web Development",
        excerpt |-> "A comprehensive guide to beginning your journey in web development. Learn about HTML, CSS, JavaScript, and modern frameworks.",
        content |-> "",
        date |-> "2025-09-20",
        category |-> "Web Development",
        tags |-> <<"HTML", "CSS", "JavaScript", "Frontend">>,
        author |-> "SilentCoderHub",
        readTime |-> "8 min read",
        slug |-> "getting-started-web-development"],
       [id |-> "post-sample-3",
        title |-> "Understanding JavaScript Closures",
        excerpt |-> "Dive deep into one of JavaScript's most powerful features. Learn how closures work and how to use them effectively in your code.",
        content |-> "",
        date |-> "2025-09-18",
        category |-> "Programming",
        tags |-> <<"JavaScript", "Programming Concepts", "Functions">>,
        author |-> "SilentCoderHub",
        readTime |-> "10 min read",
        slug |-> "understanding-javascript-closures"] >>

---------------------------------------------------------------------------
(* One document handed to extractMetadata and to parsePostHTML *)

\* what a call gave: the record it returned, or that it threw
Returned(record) == [status |-> "returned", record |-> record]
Threw == [status |-> "threw"]

\* extractMetadata(htmlContent, filename)
CallExtractMetadata ==
    /\ built.html \in DocIds
    /\ built.indexer.status = "none"
    /\ built' = [built EXCEPT !.indexer =
            IF Extracted[built.html, built.filename, now].throws THEN Threw
            ELSE Returned(Extracted[built.html, built.filename, now].metadata)]
    /\ UNCHANGED <<files, artifact, now, console, indexData, prevIndex,
                   indexerPc, sortOrder, loaderPc, discovering, response,
                   allPosts, log, watch, ui>>

\* parsePostHTML(html, slug)
CallParsePostHTML ==
    /\ built.html \in DocIds
    /\ built.page.status = "none"
    /\ built' = [built EXCEPT !.page =
            IF ParsePostHTMLThrows(built.html) THEN Threw
            ELSE Returned(ParsePostHTML(built.html, Basename(built.filename),
                                        now))]
    /\ UNCHANGED <<files, artifact, now, console, indexData, prevIndex,
                   indexerPc, sortOrder, loaderPc, discovering, response,
                   allPosts, log, watch, ui>>

---------------------------------------------------------------------------
(* Front-end: loadAllPosts, fetchPostsFromIndex, discoverPosts *)

KnownPosts == <<"what-exactly-is-a-computer">>

\* What a fetch gave the page: "error" (the promise rejected), "notOk" (a
\* response whose ok is false) or "ok" with the file as the server read it
Response(kind, file) == [kind |-> kind, file |-> file]

\* fetch('./posts/posts.json') against the directory as it is now
FetchIndexResponse(net, json) ==
    IF net = "down" THEN Response("error", NoFile)
    ELSE IF ~json.exists THEN Response("notOk", NoFile)
    ELSE Response("ok", json)

\* response.json() resolves: all of the JSON text was there
JsonParses(file) == file.exists /\ file.written = file.total

\* A faulty fetchPostsFromIndex that hands the list over back to front
FetchPostsFromIndexReversed(resp) ==
    IF resp.kind = "ok" /\ resp.file.exists /\ resp.file.written = resp.file.total
       /\ "posts" \in DOMAIN resp.file.doc
    THEN [i \in 1..Len(resp.file.doc.posts) |->
             resp.file.doc.posts[Len(resp.file.doc.posts) + 1 - i]]
    ELSE <<>>

\* fetchPostsFromIndex: a rejected fetch and a body that does not parse are
\* caught and give []; so does a response that is not ok
FetchPostsFromIndex(resp) ==
    IF resp.kind = "ok" /\ JsonParses(resp.file)
    THEN IF "posts" \in DOMAIN resp.file.doc
         THEN resp.file.doc.posts
         ELSE <<>>
    ELSE <<>>

\* loadAndParsePost: the record, or <<>> for null (fetch rejected, response
\* not ok, or parsePostHTML threw; each is logged with console.error)
LoadAndParsePost(net, dir, slug, clock) ==
    LET file == slug \o ".html"
        state == IF file \in DOMAIN dir THEN dir[file] ELSE "absent"
    IN  IF net = "down" \/ state \in {"absent", "unreadable"} THEN <<>>
        ELSE IF ParsePostHTMLThrows(state) THEN <<>>
        ELSE <<ParsePostHTML(state, slug, clock)>>

\* loadAllPosts up to the end of fetchPostsFromIndex: with posts in the
\* index the load is over, without it goes on to discoverPosts
FetchIndex ==
    /\ loaderPc = "start"
    /\ \E net \in {"up", "down"} :
        LET resp == FetchIndexResponse(net, artifact)
            posts == FetchPostsFromIndex(resp)
        IN  /\ response' = resp
            /\ IF Len(posts) > 0
               THEN /\ allPosts' = posts
                    /\ log' = "Loaded " \o ToString(Len(posts)) \o " posts from index"
                    /\ loaderPc' = "loaded"
               ELSE /\ loaderPc' = "discover"
                    /\ UNCHANGED <<allPosts, log>>
    /\ UNCHANGED <<files, artifact, now, console, indexData, prevIndex, indexerPc,
                   sortOrder, discovering>>
    /\ UNCHANGED <<watch, built, ui>>

\* discoverPosts: the load of the next known slug and, after the last one,
\* the sort, the assignment to allPosts and the log line.  The catch of
\* loadAllPosts (allPosts = getSamplePosts()) is never entered: both
\* fetchPostsFromIndex and loadAndParsePost catch what they raise.
DiscoverPosts ==
    /\ loaderPc = "discover"
    /\ \E net \in {"up", "down"} :
        LET slug == KnownPosts[discovering.next]
            postData == LoadAndParsePost(net, files, slug, now)
            posts == discovering.posts \o postData
            errors == IF postData = <<>>
                      THEN Append(discovering.errors, slug)
                      ELSE discovering.errors
        IN  /\ discovering' = [next |-> discovering.next + 1,
                                posts |-> posts, errors |-> errors]
            /\ IF discovering.next < Len(KnownPosts)
               THEN UNCHANGED <<loaderPc, allPosts, log>>
               ELSE /\ \E perm \in SortChoices(posts, <<>>) :
                           allPosts' = SortResult(posts, perm)
                    /\ log' = "Discovered " \o ToString(Len(posts))
                                \o " posts"
                    /\ loaderPc' = "loaded"
    /\ UNCHANGED <<files, artifact, now, console, indexData, prevIndex, indexerPc,
                   sortOrder, response>>
    /\ UNCHANGED <<watch, built, ui>>

---------------------------------------------------------------------------
(* Front-end: displayPosts, handleSearch, loadMorePosts and the events *)

\* the argument of displayPosts: none (null) or a list of posts
NoPosts == [given |-> FALSE, list |-> <<>>]
Posts(list) == [given |-> TRUE, list |-> list]

\* Array.prototype.slice(0, end)
SliceTo(arr, end) == SubSeq(arr, 1, IF end < Len(arr) THEN end ELSE Len(arr))

\* displayPosts(posts) with showNoPostsMessage, hideNoPostsMessage,
\* renderPosts and updateLoadMoreButton; an empty list is truthy, so a
\* filter that matches nothing is displayed as given
DisplayPosts(u, all, posts) ==
    LET postsToShow == IF posts.given THEN posts.list ELSE all
        startIndex == u.currentPage * BLOG_CONFIG.postsPerPage
        endIndex == startIndex + BLOG_CONFIG.postsPerPage
        shown == IF posts.given THEN postsToShow ELSE SliceTo(all, endIndex)
        page == IF posts.given THEN 0 ELSE u.currentPage
    IN  IF Len(shown) = 0
        THEN [u EXCEPT !.displayedPosts = shown,
                       !.currentPage = page,
                       !.rendered = TRUE,
                       !.noPostsDiv = "block",
                       !.loadMoreBtn = "none"]
        ELSE [u EXCEPT !.displayedPosts = shown,
                       !.currentPage = page,
                       !.rendered = TRUE,
                       !.noPostsDiv = "none",
                       !.postsContainer = shown,
                       !.loadMoreBtn =
                           IF Len(shown) >= Len(postsToShow) THEN "none"
                           ELSE "block"]

\* the filter of handleSearch
PostMatches(post, searchTerm) ==
    \/ StringIncludes(ToLowerCase(post.title), searchTerm)
    \/ StringIncludes(ToLowerCase(post.excerpt), searchTerm)
    \/ StringIncludes(ToLowerCase(post.category), searchTerm)
    \/ \E i \in 1..Len(post.tags) :
           StringIncludes(ToLowerCase(post.tags[i]), searchTerm)

\* searchInput.value.toLowerCase().trim()
SearchTerm(value) == Trim(ToLowerCase(value))

\* handleSearch
HandleSearch(u, all) ==
    LET searchTerm == SearchTerm(u.searchInput)
        Test(post) == PostMatches(post, searchTerm)
    IN  IF searchTerm = ""
        THEN DisplayPosts([u EXCEPT !.currentPage = 0, !.searched = ""],
                          all, NoPosts)
        ELSE DisplayPosts([u EXCEPT !.searched = searchTerm],
                          all, Posts(SelectSeq(all, Test)))

\* A faulty loadMorePosts that sets a timer at every click
LoadMorePostsAtEveryClick(u) ==
    [u EXCEPT !.isLoading = TRUE, !.loadMoreTimers = @ + 1]

\* loadMorePosts up to setTimeout
LoadMorePosts(u) ==
    IF u.isLoading THEN u
    ELSE [u EXCEPT !.isLoading = TRUE, !.loadMoreTimers = @ + 1]

\* the texts a visitor types into the search box
TypedTexts == {"", " ", " CSS", "closures"}

\* the tags on the cards of the posts container
CardTags ==
    UNION {{ui.postsContainer[i].tags[k] :
               k \in 1..Len(ui.postsContainer[i].tags)} :
           i \in 1..Len(ui.postsContainer)}

\* between two tasks of the page: initializeBlog goes on from its await in
\* the task that ends loadAllPosts, so no event is handled in between
BetweenTasks == loaderPc # "loaded"

\* what the page's actions leave alone
PageUnchanged ==
    UNCHANGED <<files, artifact, now, console, indexData, prevIndex,
                indexerPc, sortOrder, loaderPc, discovering, response,
                allPosts, log, watch, built>>

\* initializeBlog after await loadAllPosts(): displayPosts()
InitializeBlog ==
    /\ loaderPc = "loaded"
    /\ loaderPc' = "rendered"
    /\ ui' = DisplayPosts(ui, allPosts, NoPosts)
    /\ UNCHANGED <<files, artifact, now, console, indexData, prevIndex,
                   indexerPc, sortOrder, discovering, response, allPosts,
                   log, watch, built>>

\* an input event on the search box: debounce(handleSearch, 300) clears
\* the timer it has set and sets one
SearchInput ==
    /\ BetweenTasks
    /\ \E value \in TypedTexts \ {ui.searchInput} :
          ui' = [ui EXCEPT !.searchInput = value, !.inputTimer = TRUE]
    /\ PageUnchanged

\* the debounce timer runs out: handleSearch()
SearchTimeout ==
    /\ BetweenTasks
    /\ ui.inputTimer
    /\ ui' = HandleSearch([ui EXCEPT !.inputTimer = FALSE], allPosts)
    /\ PageUnchanged

\* a click on the search button: handleSearch()
SearchClick ==
    /\ BetweenTasks
    /\ ui' = HandleSearch(ui, allPosts)
    /\ PageUnchanged

\* a click on a tag of a post card: the search box gets the tag's text
\* without a trailing count, then handleSearch()
TagClick ==
    /\ BetweenTasks
    /\ \E tag \in CardTags :
          LET filterTerm == Trim(RemoveTrailingDigits(Trim(tag)))
          IN  ui' = HandleSearch([ui EXCEPT !.searchInput = filterTerm],
                                 allPosts)
    /\ PageUnchanged

\* a click on the load-more button, which shows unless its style hides it
LoadMoreClick ==
    /\ BetweenTasks
    /\ ui.loadMoreBtn # "none"
    /\ ui.loadMoreTimers < MaxTimers
    /\ ui' = LoadMorePosts(ui)
    /\ PageUnchanged

\* the 500 ms timer of loadMorePosts runs out
LoadMoreTimeout ==
    /\ BetweenTasks
    /\ ui.loadMoreTimers > 0
    /\ ui' = [DisplayPosts([ui EXCEPT !.currentPage = @ + 1,
                                      !.loadMoreTimers = @ - 1],
                           allPosts, NoPosts)
                  EXCEPT !.isLoading = FALSE]
    /\ PageUnchanged

---------------------------------------------------------------------------
(* The system *)

\* posts.json as the indexer may find it before its first pass: missing,
\* an index kept by hand without posts, with an empty list or with posts,
\* or a file whose text is cut short
HandWritten == [totalPosts |-> 3, posts |-> GetSamplePosts]
InitArtifacts ==
    { NoFile,
      File([totalPosts |-> 0], 1, 1),
      File([totalPosts |-> 0, posts |-> <<>>], 1, 1),
      File(HandWritten, 1, 1),
      File(HandWritten, 0, 1) }

\* the indexer was started without --watch
WatchOff == [state |-> "off", timers |-> 0, events |-> 0, passes |-> 0]

\* no document on the builders' bench
NothingBuilt ==
    [html |-> "none", filename |-> "none",
     indexer |-> [status |-> "none"], page |-> [status |-> "none"]]

\* The page when the script has set its globals: nothing displayed, no
\* timer set, the search box empty and no inline style on the load-more
\* button or the no-posts message.  searched is the term of the last
\* handleSearch (null before the first), rendered whether displayPosts
\* has been called.
PageOpened ==
    [displayedPosts |-> <<>>,
     currentPage |-> 0,
     isLoading |-> FALSE,
     searchInput |-> "",
     inputTimer |-> FALSE,
     loadMoreTimers |-> 0,
     postsContainer |-> <<>>,
     loadMoreBtn |-> "",
     noPostsDiv |-> "",
     searched |-> NullV,
     rendered |-> FALSE]

\* The state before either program has run
ProgramsStarted ==
    /\ now = ClockStart
    /\ console = ""
    /\ indexData = NoIndex
    /\ prevIndex = NoIndex
    /\ indexerPc = "idle"
    /\ sortOrder = <<>>
    /\ loaderPc = "start"
    /\ discovering = [next |-> 1, posts |-> <<>>, errors |-> <<>>]
    /\ response = Response("none", NoFile)
    /\ allPosts = <<>>
    /\ log = ""

\* main without --watch, no document on the builders' bench, the page as
\* the script's globals leave it
Started ==
    /\ ProgramsStarted
    /\ watch = WatchOff
    /\ built = NothingBuilt
    /\ ui = PageOpened

\* The indexer alone, over every directory of the model, with no posts.json
\* to begin with
InitIndexer ==
    /\ files \in Directories
    /\ artifact = NoFile
    /\ Started

NextIndexer ==
    \/ Tick
    \/ GenerateNoFiles
    \/ GeneratePostsIndex
    \/ WriteFileSync

SpecIndexer == InitIndexer /\ [][NextIndexer]_vars

\* The indexer started with --watch over a directory that holds at most the
\* two posts whose files the events rewrite
InitWatch ==
    /\ files \in {dir \in Directories :
                    /\ dir["what-exactly-is-a-computer.html"]
                          \in {"absent", "computer"}
                    /\ dir["css-grid.html"] \in {"absent", "web"}
                    /\ dir["my-topic-2025-09-24.html"]
                          \in {"absent", "computer"}}
    /\ artifact = NoFile
    /\ ProgramsStarted
    /\ watch = WatchMain
    /\ built = NothingBuilt
    /\ ui = PageOpened

NextWatch ==
    \/ WatchedNoFiles
    \/ WatchedIndex
    \/ WriteFileSync
    \/ WatchPostsDirectory
    \/ ChangeEvent

SpecWatch == InitWatch /\ [][NextWatch]_vars

\* Every document of the model under every file name, handed to the two
\* builders
InitBuilders ==
    /\ files = [file \in FileNames |-> "absent"]
    /\ artifact = NoFile
    /\ ProgramsStarted
    /\ watch = WatchOff
    /\ \E html \in DocIds, filename \in FileNames :
          built = [NothingBuilt EXCEPT !.html = html, !.filename = filename]
    /\ ui = PageOpened

NextBuilders ==
    \/ Tick
    \/ CallExtractMetadata
    \/ CallParsePostHTML

SpecBuilders == InitBuilders /\ [][NextBuilders]_vars

\* a post of a posts.json kept by hand
ArchivePost(i) ==
    [id |-> "post-part-" \o ToString(i),
     title |-> "Part " \o ToString(i),
     excerpt |-> IF i % 2 = 0 THEN "On CSS Grid" ELSE "On closures",
     date |-> "2025-09-" \o Pad2(ArchiveSize + 1 - i),
     category |-> IF i % 3 = 0 THEN "Web" ELSE "Programming",
     tags |-> IF i % 2 = 0 THEN <<"css", "Layout">> ELSE <<"JavaScript">>,
     author |-> CONFIG.author,
     readTime |-> "1 min read",
     slug |-> "part-" \o ToString(i)]

Archive ==
    [totalPosts |-> ArchiveSize,
     posts |-> [i \in 1..ArchiveSize |-> ArchivePost(i)]]

\* One visit of the page: posts.json missing or holding the archive, the
\* known post there or not, the indexer not running
InitPage ==
    /\ files \in {dir \in Directories :
                    /\ dir["what-exactly-is-a-computer.html"]
                          \in {"absent", "computer"}
                    /\ dir["css-grid.html"] = "absent"
                    /\ dir["my-topic-2025-09-24.html"] = "absent"}
    /\ artifact \in {NoFile, File(Archive, 1, 1)}
    /\ Started

NextPage ==
    \/ FetchIndex
    \/ DiscoverPosts
    \/ InitializeBlog
    \/ SearchInput
    \/ SearchTimeout
    \/ SearchClick
    \/ TagClick
    \/ LoadMoreClick
    \/ LoadMoreTimeout

SpecPage == InitPage /\ [][NextPage]_vars

\* The indexer and one page load side by side: the directories that differ
\* in the post the page knows of, and every posts.json the page may find
Init ==
    /\ files \in {dir \in Directories :
                    /\ dir["css-grid.html"] \in {"absent", "unreadable"}
                    /\ dir["my-topic-2025-09-24.html"] = "absent"}
    /\ artifact \in InitArtifacts
    /\ Started

Next ==
    \/ Tick
    \/ GenerateNoFiles
    \/ GeneratePostsIndex
    \/ WriteFileSync
    \/ FetchIndex
    \/ DiscoverPosts

Spec == Init /\ [][Next]_vars

---------------------------------------------------------------------------
(* The loader's states *)

\* the fetch of posts.json was rejected, answered not-ok, or its body did
\* not parse
IndexFetchFailed ==
    \/ response.kind \in {"error", "notOk"}
    \/ response.kind = "ok" /\ ~JsonParses(response.file)

\* posts.json was served whole
IndexParsed == response.kind = "ok" /\ JsonParses(response.file)

\* the posts list of the served index, [] when it has none
IndexPosts ==
    IF "posts" \in DOMAIN response.file.doc THEN response.file.doc.posts
    ELSE <<>>

\* discoverPosts has run to its end
Discovered == discovering.next > Len(KnownPosts)

\* C1: when the fetch of the index fails and discovery over the known list
\* loads no document, allPosts after loadAllPosts is the sample set of
\* getSamplePosts.
C1_LoaderFallback ==
    (loaderPc = "loaded" /\ IndexFetchFailed /\ Discovered
        /\ discovering.posts = <<>>)
    => allPosts = GetSamplePosts

C4_AtomicPublication ==
    (response.kind = "ok" /\ "generated" \in DOMAIN response.file.doc)
    => JsonParses(response.file)

---------------------------------------------------------------------------
(* The indexing pass *)

\* a pass has built its index
Indexed == indexData # NoIndex

\* the documents the pass could read
Readable == {file \in FileNames : files[file] \in DocIds}

\* the documents whose record the pass could build
Succeeded ==
    {file \in Readable : ~ExtractMetadataThrows(DocOf(files[file]))}

SlugsOf(posts) == {posts[i].slug : i \in 1..Len(posts)}

RECURSIVE SumOf(_)
SumOf(numbers) ==
    IF numbers = <<>> THEN 0 ELSE Head(numbers) + SumOf(Tail(numbers))

\* C3: for every document, a meta tag without a content value included,
\* extractMetadata returns a record without raising an error and no field
\* of it is null: after a pass every readable document has its record and
\* the text fields and tags of every record are defined.
C3_ExtractionTotal ==
    Indexed =>
        /\ \A file \in Readable : Basename(file) \in SlugsOf(indexData.posts)
        /\ \A i \in 1..Len(indexData.posts) :
              LET record == indexData.posts[i]
              IN  /\ \A field \in {"title", "excerpt", "date", "category",
                                    "author"} : record[field] # NullV
                  /\ \A k \in 1..Len(record.tags) : record.tags[k] # NullV

\* place of the record's document in the sorted file names
Encounter(slug) ==
    CHOOSE k \in 1..Len(HtmlFiles) : Basename(HtmlFiles[k]) = slug

\* C5: in every index of generatePostsIndex the posts are ordered by date
\* descending, date[i] >= date[i+1] for adjacent records, and records with
\* equal dates keep the order of their file names.
C5_SortedByDate ==
    Indexed =>
        \A i \in 1..(Len(indexData.posts) - 1) :
            LET a == indexData.posts[i]
                b == indexData.posts[i + 1]
            IN  /\ ~StringLess(a.date, b.date)
                /\ a.date = b.date => Encounter(a.slug) < Encounter(b.slug)

\* C6: the tag list of the index is ordered by descending count and has at
\* most maxPopularTags (10) entries.
C6_TopTags ==
    Indexed =>
        /\ Len(indexData.tags) <= BLOG_CONFIG.maxPopularTags
        /\ \A i \in 1..(Len(indexData.tags) - 1) :
              indexData.tags[i].count >= indexData.tags[i + 1].count

\* occurrences of the tag `name` over all records
TagOccurrences(posts, name) ==
    Cardinality({at \in UNION {{<<j, k>> : k \in 1..Len(posts[j].tags)} :
                                  j \in 1..Len(posts)} :
                    posts[at[1]].tags[at[2]] = name})

\* C7: each category's count is the number of records with exactly that
\* category, each tag's count is the number of occurrences of exactly that
\* tag across all records, the names of each list are pairwise distinct and
\* the category counts sum to the number of records.
C7_Aggregation ==
    Indexed =>
        LET posts == indexData.posts
            categories == indexData.categories
            tags == indexData.tags
        IN  /\ \A i \in 1..Len(categories) :
                  categories[i].count =
                      Cardinality({j \in 1..Len(posts) :
                                      posts[j].category = categories[i].name})
            /\ \A i \in 1..Len(tags) :
                  tags[i].count = TagOccurrences(posts, tags[i].name)
            /\ \A i, j \in 1..Len(categories) :
                  categories[i].name = categories[j].name => i = j
            /\ \A i, j \in 1..Len(tags) :
                  tags[i].name = tags[j].name => i = j
            /\ SumOf([i \in 1..Len(categories) |-> categories[i].count])
                  = Len(posts)

\* C8: two passes over an unchanged directory give indexes that are equal
\* in every field except generated.
C8_Idempotent ==
    (Indexed /\ prevIndex # NoIndex)
    => [indexData EXCEPT !.generated = ""]
           = [prevIndex EXCEPT !.generated = ""]

\* C9: a document whose read or whose builder fails is skipped alone: the
\* index a finished pass has written holds exactly one record for each
\* document that succeeded, and the list discovery returns holds exactly
\* the records of the known documents whose load was not logged as failed.
C9_PartialCollection ==
    /\ (Indexed /\ indexerPc = "idle") =>
          /\ JsonParses(artifact)
          /\ Len(artifact.doc.posts) = Cardinality(Succeeded)
          /\ SlugsOf(artifact.doc.posts) = {Basename(file) : file \in Succeeded}
          /\ artifact.doc.totalPosts = Cardinality(Succeeded)
    /\ (loaderPc = "loaded" /\ Discovered) =>
          /\ Len(allPosts) + Len(discovering.errors) = Len(KnownPosts)
          /\ SlugsOf(allPosts) =
                {KnownPosts[i] : i \in 1..Len(KnownPosts)}
                    \ {discovering.errors[i] :
                           i \in 1..Len(discovering.errors)}
          /\ \A i \in 1..Len(allPosts) :
                files[allPosts[i].slug \o ".html"] \in DocIds

\* a finished pass skipped the unreadable css-grid.html and kept the record
\* of the document after it
C9_SkippedOne ==
    /\ Indexed
    /\ indexerPc = "idle"
    /\ files["css-grid.html"] = "unreadable"
    /\ SlugsOf(artifact.doc.posts) = {"what-exactly-is-a-computer"}

\* C10: totalWords is the sum of wordCount over the records,
\* averageReadTime is the rounded mean of the read minutes and is undefined
\* (no number, no null) when there is no record, latestPost and oldestPost
\* are the dates of the first and the last record.
C10_Stats ==
    Indexed =>
        LET posts == artifact.doc.posts
            stats == artifact.doc.stats
            minutes == SumOf([i \in 1..Len(posts) |->
                                 ParseInt(posts[i].readTime).n])
        IN  /\ stats.totalWords
                  = SumOf([i \in 1..Len(posts) |-> posts[i].wordCount])
            /\ IF Len(posts) = 0
               THEN stats.averageReadTime.kind = "undefined"
               ELSE stats.averageReadTime
                        = Num((2 * minutes + Len(posts)) \div (2 * Len(posts)))
            /\ Len(posts) > 0 =>
                  /\ stats.latestPost = posts[1].date
                  /\ stats.oldestPost = posts[Len(posts)].date

---------------------------------------------------------------------------
(* Watch mode *)

\* C11: with --watch the first pass is over before observation starts, and
\* a burst of k >= 1 change events on .html files within the debounce
\* window leads to exactly one further pass, not to k: once every timer of
\* the burst has run and its pass has returned, one pass was started.
C11_Debounced ==
    /\ watch.state = "watching" =>
          (indexerPc = "idle" \/ watch.passes > 0) /\ console # ""
    /\ (watch.state = "watching" /\ watch.events >= 1 /\ watch.timers = 0
            /\ indexerPc = "idle")
        => watch.passes = 1

----------------------------------------------------------------------------
(* The two metadata builders on one document *)

\* the records the builders have returned for the document on the bench
BuiltRecords ==
    {built[side].record :
        side \in {side \in {"indexer", "page"} :
                      built[side].status = "returned"}}

\* C12: the tags of every post record, of the indexer and of the front-end
\* alike, are a non-empty sequence of non-empty strings; a keywords content
\* that is empty or holds only commas and whitespace gives neither an empty
\* list nor a list that holds the empty string.
C12_TagsNonEmpty ==
    \A record \in BuiltRecords :
        /\ Len(record.tags) > 0
        /\ \A i \in 1..Len(record.tags) : record.tags[i] # ""

\* the text of the first element that one of the selectors, tried in order,
\* finds in the document; the fallback when none finds any
RECURSIVE FirstInOrder(_, _, _)
FirstInOrder(doc, order, fallback) ==
    IF Len(order) = 0 THEN fallback
    ELSE LET el == QuerySelector(doc, {Head(order)})
         IN  IF el # 0 THEN Trim(doc[el].text)
             ELSE FirstInOrder(doc, Tail(order), fallback)

\* C13: both builders take the title from the first h1, else from <title>,
\* else from the first .post-title, else from the first .title, else
\* "Untitled Post"; a document with a <title> and an h1 gets the h1 text
\* wherever the two stand.
C13_TitleOrder ==
    \A record \in BuiltRecords :
        record.title =
            FirstInOrder(DocOf(built.html),
                         << SelTag("h1"), SelTag("title"),
                            SelClass("post-title"), SelClass("title") >>,
                         "Untitled Post")

\* the number of non-empty whitespace-delimited tokens of a text: the
\* tokens of the text without the whitespace around it
TokensOf(text) ==
    IF Trim(text) = "" THEN 0 ELSE Len(SplitWs(Trim(text)))

\* C14: readTime is "N min read" with N = max(1, ceil(W / 200)), W the
\* number of non-empty whitespace-delimited tokens of the body text, so
\* that whitespace around or between the words never changes N; W is the
\* wordCount of the indexer's record.
C14_ReadTime ==
    LET W == TokensOf(BodyText(DocOf(built.html)))
        N == Max(1, CeilDiv(W, 200))
    IN  /\ \A record \in BuiltRecords :
              record.readTime = ToString(N) \o " min read"
        /\ built.indexer.status = "returned"
              => built.indexer.record.wordCount = W

\* the fields the two builders' records share
SharedFields ==
    {"id", "slug", "title", "excerpt", "date", "category", "tags", "author",
     "readTime"}

\* C18: for one document and one file name the record of parsePostHTML and
\* the record of extractMetadata agree on id, slug, title, excerpt, date,
\* category, tags, author and readTime.
C18_BuildersAgree ==
    (built.indexer.status = "returned" /\ built.page.status = "returned")
        => \A field \in SharedFields :
              built.page.record[field] = built.indexer.record[field]

----------------------------------------------------------------------------
(* The page and its visitor *)

\* loadAllPosts has completed and set allPosts
LoadCompleted == loaderPc \in {"loaded", "rendered"}

\* C15: in every interleaving of initialization with the visitor's events
\* (search input and click, tag click, load-more click and its timer) no
\* call of displayPosts runs before loadAllPosts has completed.
C15_LoadBeforeRender == ui.rendered => LoadCompleted

\* C16: whenever the search box holds a non-empty term and the last search
\* has been applied with it, every post of displayedPosts matches the term
\* in its title, excerpt, category or a tag, case-insensitively, also when
\* the timer of a load-more click was pending while the search ran.
C16_FilterConsistency ==
    LET searchTerm == SearchTerm(ui.searchInput)
    IN  (BetweenTasks /\ searchTerm # "" /\ ui.searched = searchTerm)
        => \A i \in 1..Len(ui.displayedPosts) :
              PostMatches(ui.displayedPosts[i], searchTerm)

\* the search box is empty and so was the term of the last search, if
\* there was one
NoSearchTerm ==
    /\ SearchTerm(ui.searchInput) = ""
    /\ ui.searched \in {NullV, ""}

\* C17: between the page's tasks and with an empty search term,
\* displayedPosts is the prefix of allPosts of length
\* min((currentPage + 1) * 5, |allPosts|) and, once displayPosts has run,
\* the load-more button shows exactly when displayedPosts is shorter than
\* allPosts; a click while isLoading sets no second timer, so one timer is
\* pending exactly while isLoading and each accepted click raises
\* currentPage by one.
C17_Pagination ==
    /\ (BetweenTasks /\ NoSearchTerm) =>
          /\ ui.displayedPosts
                = SliceTo(allPosts, (ui.currentPage + 1) * 5)
          /\ ui.rendered =>
                /\ ui.loadMoreBtn \in {"block", "none"}
                /\ ui.loadMoreBtn = "block"
                      <=> Len(ui.displayedPosts) < Len(allPosts)
    /\ ui.loadMoreTimers = IF ui.isLoading THEN 1 ELSE 0

\* the second page of the archive is displayed and a further click on the
\* load-more button, which still shows, has set its timer
C17_SecondPage ==
    /\ loaderPc = "rendered"
    /\ NoSearchTerm
    /\ Len(allPosts) > 2 * BLOG_CONFIG.postsPerPage
    /\ ui.currentPage = 1
    /\ Len(ui.displayedPosts) = 2 * BLOG_CONFIG.postsPerPage
    /\ ui.loadMoreBtn = "block"
    /\ ui.isLoading

====
